---- MODULE Spec2Model ----
(***************************************************************************)
(* LAMMPSWeb: the snapshot extraction and buffer-marshalling layer between *)
(* a LAMMPS engine instance and a rendering client                         *)
(* (src/cpp/lammpsweb/lammpsweb.h, src/cpp/lammpsweb/lammpsweb.cpp).       *)
(*                                                                         *)
(* Code indices are 0-based: per-atom engine arrays are functions over     *)
(* 0..natoms-1.  std::vector<float> and std::array<float,N> are sequences. *)
(* Coordinates live on an integer grid (half units of the spec's example:  *)
(* period 10 is 20 here), so every value is exact in single precision.     *)
(***************************************************************************)
EXTENDS Integers, Sequences, FiniteSets, TLC

\* ---------------------------------------------------------------- bounds
MaxAtoms == 2
MaxBondsPerAtom == 2
MaxImage == 1

VARIABLES m_lmp, m_cellMatrix, m_boxSize, m_origo, m_particlePositions,
          m_bondsPosition1, m_bondsPosition2, ret, lastOp, wide

vars == <<m_lmp, m_cellMatrix, m_boxSize, m_origo, m_particlePositions,
          m_bondsPosition1, m_bondsPosition2, ret, lastOp, wide>>

Axes == 1..3

\* ------------------------------------------------------- the engine (LAMMPS)
\* The fields of LAMMPS_NS::LAMMPS the layer reads.  live = FALSE is the null
\* m_lmp; atom/domain/force say whether sim->atom, sim->domain, sim->force are
\* non-null; topo says whether atom->num_bond and atom->bond_atom are non-null.
NullSim ==
  [live |-> FALSE, atom |-> FALSE, domain |-> FALSE, force |-> FALSE,
   newton_bond |-> FALSE, natoms |-> 0, nbonds |-> 0, topo |-> FALSE,
   x |-> <<>>, image |-> <<>>, num_bond |-> <<>>, bond_atom |-> <<>>,
   prd |-> <<0, 0, 0>>, boxlo |-> <<0, 0, 0>>,
   periodicity |-> <<FALSE, FALSE, FALSE>>]

hasSimulation == m_lmp.live

\* Period of the cell on each axis and its lower corner.
BoxPrd == <<20, 8, 8>>

BoxLo == <<0, 0, 0>>

ZeroImage == <<0, 0, 0>>

\* The instance lammps_open_no_mpi returns: tables present, no atoms yet.
FreshSim ==
  [NullSim EXCEPT !.live = TRUE, !.atom = TRUE, !.domain = TRUE, !.force = TRUE,
                  !.prd = BoxPrd, !.boxlo = BoxLo,
                  !.periodicity = <<TRUE, TRUE, TRUE>>]

\* Domain::unmap: the lab-frame position of a folded position.
Unmap(sim, pos, img) == [k \in Axes |-> pos[k] + img[k] * sim.prd[k]]

\* The representative of d modulo the period p in the half-open range
\* [-p/2, p/2).
FoldHalfOpen(d, p) == ((d + (p \div 2)) % p) - (p \div 2)

\* Domain::minimum_image: on each periodic axis the displacement is shifted by
\* whole periods into the half-open range; other axes are left alone.
MinimumImage(sim, d) ==
  [k \in Axes |-> IF sim.periodicity[k] /\ sim.prd[k] > 0
                  THEN FoldHalfOpen(d[k], sim.prd[k]) ELSE d[k]]

\* Atom::map: global tag -> local index.  Atom i carries tag i + 1; tag
\* natoms + 1 is a ghost (an index outside the local range); any other tag is
\* unknown (-1).
AtomMap(sim, tag) ==
  IF tag >= 1 /\ tag <= sim.natoms + 1 THEN tag - 1 ELSE -1

\* Addresses: 0 is the null pointer, every live object has its own address.
AddressOf(name) ==
  CASE name = "m_particlePositions" -> 1
    [] name = "m_bondsPosition1" -> 2
    [] name = "m_bondsPosition2" -> 3
    [] name = "m_cellMatrix" -> 4
    [] name = "m_origo" -> 5
    [] name = "m_boxSize" -> 6
    [] name = "image" -> 7
    [] name = "id" -> 8
    [] name = "type" -> 9
    [] OTHER -> 0

\* lammps_extract_atom: the engine's per-atom array of that name, null while
\* no per-atom storage has been allocated.
lammps_extract_atom(sim, name) ==
  IF sim.atom /\ sim.natoms > 0 THEN AddressOf(name) ELSE 0

\* Domain::box_corners for an orthogonal cell: corner c has its x (y, z)
\* coordinate at the upper face when bit 0 (1, 2) of c is set.
BoxCorners(sim) ==
  [c \in 0..7 |->
     [k \in Axes |->
        sim.boxlo[k]
          + (IF (c \div (IF k = 1 THEN 1 ELSE IF k = 2 THEN 2 ELSE 4)) % 2 = 1
             THEN sim.prd[k] ELSE 0)]]

\* sizeof(LAMMPS_NS::tagint) in the default (smallbig) engine build.
SizeofTagint == 4

\* ----------------------------------------------------------- conversions
\* static_cast<float>(double) on grid values: integers of magnitude up to
\* 2^24 are exact, larger ones round to the nearest even integer.
Float32(v) ==
  IF v >= -16777216 /\ v <= 16777216 THEN v ELSE 2 * ((v + 1) \div 2)

Float3(p) == <<Float32(p[1]), Float32(p[2]), Float32(p[3])>>

\* ----------------------------------------------------------- BufferView
DefaultView == [ptr |-> 0, length |-> 0, components |-> 1, type |-> "Float32"]

ViewEmpty(view) == view.ptr = 0 \/ view.length = 0

ViewCount(view) ==
  IF view.components = 0 THEN 0 ELSE view.length \div view.components

\* pointerFrom for a std::vector: null when the vector is empty.
pointerFrom(name, buffer) == IF Len(buffer) = 0 THEN 0 ELSE AddressOf(name)

\* pointerFrom for a std::array: always the array's address.
pointerFromArray(name, buffer) == AddressOf(name)

makeViewOf(ptr, buffer, components, type) ==
  IF ptr = 0
  THEN [ptr |-> 0, length |-> 0, components |-> 0, type |-> type]
  ELSE [ptr |-> ptr, length |-> Len(buffer), components |-> components,
        type |-> type]

makeView(name, buffer, components, type) ==
  makeViewOf(pointerFrom(name, buffer), buffer, components, type)

makeViewArray(name, buffer, components, type) ==
  makeViewOf(pointerFromArray(name, buffer), buffer, components, type)

makeRawView(ptr, count, components, type) ==
  IF ptr = 0 \/ count = 0 \/ components = 0
  THEN DefaultView
  ELSE [ptr |-> ptr, length |-> count * components,
        components |-> components, type |-> type]

scalarForTagint == IF SizeofTagint = 8 THEN "Int64" ELSE "Int32"

EmptyParticleSnapshot ==
  [kind |-> "particles", positions |-> DefaultView, ids |-> DefaultView,
   types |-> DefaultView, count |-> 0]

EmptyBondSnapshot ==
  [kind |-> "bonds", first |-> DefaultView, second |-> DefaultView,
   count |-> 0]

EmptyBoxSnapshot ==
  [kind |-> "box", matrix |-> DefaultView, origin |-> DefaultView,
   lengths |-> DefaultView]

\* std::vector::resize: keeps the prefix, value-initialises new elements.
Resize(buffer, n) ==
  [k \in 1..n |-> IF k <= Len(buffer) THEN buffer[k] ELSE 0]

\* std::array::fill(0.0f)
ZeroFill(n) == [k \in 1..n |-> 0]

\* Writes p into the three slots of atom i (base = 3 i).
StoreTriple(buffer, i, p) ==
  [buffer EXCEPT ![3 * i + 1] = Float32(p[1]),
                 ![3 * i + 2] = Float32(p[2]),
                 ![3 * i + 3] = Float32(p[3])]

\* -------------------------------------------------------- captureParticles
\* Mutant of ParticleImageOf: every atom is unwrapped with atom 0's flags.
ParticleImageOf_first(sim, i) == sim.image[0]

\* The image flags the particle loop applies to atom i.
ParticleImageOf(sim, i) == sim.image[i]

RECURSIVE ParticleLoop(_, _, _, _, _)
ParticleLoop(sim, image, numAtoms, i, buffer) ==
  IF i >= numAtoms THEN buffer
  ELSE LET position == IF image # 0
                       THEN Unmap(sim, sim.x[i], ParticleImageOf(sim, i))
                       ELSE sim.x[i]
       IN ParticleLoop(sim, image, numAtoms, i + 1,
                       StoreTriple(buffer, i, position))

captureParticles(sim, old, wrapped) ==
  IF ~sim.live \/ ~sim.atom \/ ~sim.domain
  THEN [buffer |-> <<>>, snapshot |-> EmptyParticleSnapshot]
  ELSE
    LET numAtoms == sim.natoms IN
    IF numAtoms = 0
    THEN [buffer |-> <<>>, snapshot |-> EmptyParticleSnapshot]
    ELSE
      LET image == IF wrapped THEN 0 ELSE lammps_extract_atom(sim, "image")
          filled == ParticleLoop(sim, image, numAtoms, 0,
                                 Resize(old, numAtoms * 3))
      IN [buffer |-> filled,
          snapshot |->
            [kind |-> "particles",
             count |-> numAtoms,
             positions |-> makeView("m_particlePositions", filled, 3, "Float32"),
             ids |-> makeRawView(lammps_extract_atom(sim, "id"), numAtoms, 1,
                                 scalarForTagint),
             types |-> makeRawView(lammps_extract_atom(sim, "type"), numAtoms,
                                   1, "Int32")]]

\* ------------------------------------------------------------ captureBonds
\* Mutant of BondSecond: the partner's unwrapped position is appended as it
\* is, without the minimum-image correction.
BondSecond_noMinimumImage(sim, wrapped, image, first, mappedIndex) ==
  IF image # 0
  THEN Unmap(sim, sim.x[mappedIndex], sim.image[mappedIndex])
  ELSE sim.x[mappedIndex]

\* The second endpoint appended for the bond owner atomIndex -> mappedIndex.
BondSecond(sim, wrapped, image, first, mappedIndex) ==
  LET second == IF image # 0
                THEN Unmap(sim, sim.x[mappedIndex], sim.image[mappedIndex])
                ELSE sim.x[mappedIndex]
  IN IF wrapped
     THEN second
     ELSE LET d == MinimumImage(sim, [k \in Axes |-> second[k] - first[k]])
          IN [k \in Axes |-> first[k] + d[k]]

\* The dedup rule: whether the directed entry owner -> partner is skipped.
SkipBond(shareBondAcrossRanks, atomIndex, mappedIndex) ==
  ~shareBondAcrossRanks /\ atomIndex < mappedIndex

RECURSIVE BondLoop(_, _, _, _, _, _, _, _)
BondLoop(sim, wrapped, image, share, atomIndex, first, bondIndex, acc) ==
  IF bondIndex >= sim.num_bond[atomIndex] THEN acc
  ELSE
    LET mappedIndex == AtomMap(sim, sim.bond_atom[atomIndex][bondIndex + 1])
    IN IF mappedIndex < 0 \/ mappedIndex >= sim.natoms
       THEN BondLoop(sim, wrapped, image, share, atomIndex, first,
                     bondIndex + 1, acc)
       ELSE IF SkipBond(share, atomIndex, mappedIndex)
       THEN BondLoop(sim, wrapped, image, share, atomIndex, first,
                     bondIndex + 1, acc)
       ELSE BondLoop(sim, wrapped, image, share, atomIndex, first,
                     bondIndex + 1,
                     [b1 |-> acc.b1 \o Float3(first),
                      b2 |-> acc.b2 \o Float3(BondSecond(sim, wrapped, image,
                                                         first, mappedIndex))])

RECURSIVE OwnerLoop(_, _, _, _, _, _)
OwnerLoop(sim, wrapped, image, share, atomIndex, acc) ==
  IF atomIndex >= sim.natoms THEN acc
  ELSE IF sim.num_bond[atomIndex] <= 0
  THEN OwnerLoop(sim, wrapped, image, share, atomIndex + 1, acc)
  ELSE
    LET first == IF image # 0
                 THEN Unmap(sim, sim.x[atomIndex], sim.image[atomIndex])
                 ELSE sim.x[atomIndex]
    IN OwnerLoop(sim, wrapped, image, share, atomIndex + 1,
                 BondLoop(sim, wrapped, image, share, atomIndex, first, 0, acc))

\* Mutant of ClearedBonds: the walk appends to what the buffers held.
ClearedBonds_kept(old1, old2) == [b1 |-> old1, b2 |-> old2]

\* m_bondsPosition1.clear(); m_bondsPosition2.clear() before the walk.
ClearedBonds(old1, old2) == [b1 |-> <<>>, b2 |-> <<>>]

captureBonds(sim, old1, old2, wrapped) ==
  IF ~sim.live \/ ~sim.atom \/ ~sim.domain
  THEN [b1 |-> <<>>, b2 |-> <<>>, snapshot |-> EmptyBondSnapshot]
  ELSE IF sim.nbonds = 0 \/ ~sim.topo
  THEN [b1 |-> <<>>, b2 |-> <<>>, snapshot |-> EmptyBondSnapshot]
  ELSE
    LET image == IF wrapped THEN 0 ELSE lammps_extract_atom(sim, "image")
        shareBondAcrossRanks == sim.force /\ sim.newton_bond
        acc == OwnerLoop(sim, wrapped, image, shareBondAcrossRanks, 0,
                         ClearedBonds(old1, old2))
    IN [b1 |-> acc.b1, b2 |-> acc.b2,
        snapshot |->
          [kind |-> "bonds",
           count |-> Len(acc.b1) \div 3,
           first |-> makeView("m_bondsPosition1", acc.b1, 3, "Float32"),
           second |-> makeView("m_bondsPosition2", acc.b2, 3, "Float32")]]

\* ------------------------------------------------------ syncSimulationBox
\* The geometry syncSimulationBox reads off a domain.
BoxGeometry(sim) ==
  LET corners == BoxCorners(sim)
      origin == corners[0]
      a == corners[1]
      b == corners[2]
      c == corners[4]
      matrix == [k \in 1..9 |->
                   IF k <= 3 THEN Float32(a[k] - origin[k])
                   ELSE IF k <= 6 THEN Float32(b[k - 3] - origin[k - 3])
                   ELSE Float32(c[k - 6] - origin[k - 6])]
      origo == [k \in 1..3 |-> Float32(origin[k])]
      size == [k \in 1..3 |-> Float32(sim.prd[k])]
  IN [matrix |-> matrix, size |-> size, origo |-> origo,
      snapshot |->
        [kind |-> "box",
         matrix |-> makeViewArray("m_cellMatrix", matrix, 3, "Float32"),
         origin |-> makeViewArray("m_origo", origo, 3, "Float32"),
         lengths |-> makeViewArray("m_boxSize", size, 3, "Float32")]]

ZeroedBox ==
  [matrix |-> ZeroFill(9), size |-> ZeroFill(3), origo |-> ZeroFill(3),
   snapshot |-> EmptyBoxSnapshot]

\* Mutant of captureBox: only the null instance is guarded against, the
\* box is published whether or not the instance has a domain.
captureBox_noDomainCheck(sim, oldMatrix, oldSize, oldOrigo) ==
  IF ~sim.live THEN ZeroedBox ELSE BoxGeometry(sim)

captureBox(sim, oldMatrix, oldSize, oldOrigo) ==
  IF ~sim.live \/ ~sim.domain THEN ZeroedBox ELSE BoxGeometry(sim)

\* ------------------------------------------------------- engine scenes
\* What a script can set up: n atoms in a chain.  Atom 0 sits next to the
\* upper x face and atom 1 next to the lower one, so the bond 1-0 crosses the
\* periodic boundary.  With newton_bond off every bond is listed by both of
\* its atoms; nbonds is the number of bonds.
HomePosition(i) == <<(19 + 2 * i) % 20, 2 + i, 5>>

ChainPartners(n, i) ==
  (IF i > 0 THEN <<i>> ELSE <<>>) \o (IF i + 1 < n THEN <<i + 2>> ELSE <<>>)

ChainScene(n) ==
  [FreshSim EXCEPT
     !.natoms = n,
     !.topo = n > 0,
     !.nbonds = IF n > 1 THEN n - 1 ELSE 0,
     !.x = [i \in 0..(n - 1) |-> HomePosition(i)],
     !.image = [i \in 0..(n - 1) |-> ZeroImage],
     !.num_bond = [i \in 0..(n - 1) |-> Len(ChainPartners(n, i))],
     !.bond_atom = [i \in 0..(n - 1) |-> ChainPartners(n, i)]]

\* Engine objects whose atom table or domain is missing (the states the
\* null checks of the captures guard against).
NoAtomScene == [FreshSim EXCEPT !.atom = FALSE]

NoDomainScene == [FreshSim EXCEPT !.domain = FALSE]

Scenes == {ChainScene(n) : n \in 0..MaxAtoms} \cup {NoAtomScene, NoDomainScene}

\* One timestep of the integrator: atom 0 drifts half a period along x; a
\* position leaving the cell through the upper face is folded back and its
\* image count goes up.
EngineStep(sim) ==
  IF ~sim.atom \/ ~sim.domain \/ sim.natoms = 0 THEN sim
  ELSE LET nx == sim.x[0][1] + (sim.prd[1] \div 2)
           crossed == nx >= sim.boxlo[1] + sim.prd[1]
       IN [sim EXCEPT
             !.x[0][1] = IF crossed THEN nx - sim.prd[1] ELSE nx,
             !.image[0][1] = IF crossed THEN @ + 1 ELSE @]

RECURSIVE EngineRun(_, _)
EngineRun(sim, steps) ==
  IF steps <= 0 THEN sim ELSE EngineRun(EngineStep(sim), steps - 1)

\* Largest image count of any atom on any axis (the cap on the drift).
ImageWithin(sim, bound) ==
  \A i \in 0..(sim.natoms - 1) : \A k \in Axes :
    sim.image[i][k] <= bound /\ sim.image[i][k] >= -bound

StepChoices == {-1, 0, 1, 2}

\* ------------------------------------------------------------- lifecycle
Op(name, arg) == [op |-> name, arg |-> arg]

Void == [kind |-> "void"]

Thrown == [kind |-> "throw"]

\* The count-level view of the layer (see the section on counts below):
\* no atoms, nothing appended, both vectors empty.
WideIdle ==
  [natoms |-> <<0, 0, 0>>, appended |-> <<0, 0, 0>>,
   particles |-> <<0, 0, 0>>, bonds |-> <<0, 0, 0>>, ret |-> Void]

Init ==
  /\ m_lmp = NullSim
  /\ m_cellMatrix = ZeroFill(9)
  /\ m_boxSize = ZeroFill(3)
  /\ m_origo = ZeroFill(3)
  /\ m_particlePositions = <<>>
  /\ m_bondsPosition1 = <<>>
  /\ m_bondsPosition2 = <<>>
  /\ ret = Void
  /\ lastOp = Op("construct", 0)
  /\ wide = WideIdle

\* History bookkeeping: the operation just run and its argument.
Record(name, arg) == lastOp' = Op(name, arg)

\* For a capture the argument slot tells what ran just before it: 2 the same
\* capture, 3 the capture of the same kind in the other wrapping mode, 1
\* anything else.
After(name, twin) ==
  IF lastOp.op = name THEN 2 ELSE IF lastOp.op = twin THEN 3 ELSE 1

resetStaticBuffers ==
  /\ m_cellMatrix' = ZeroFill(9)
  /\ m_boxSize' = ZeroFill(3)
  /\ m_origo' = ZeroFill(3)
  /\ m_particlePositions' = <<>>
  /\ m_bondsPosition1' = <<>>
  /\ m_bondsPosition2' = <<>>

KeepBuffers ==
  UNCHANGED <<m_cellMatrix, m_boxSize, m_origo, m_particlePositions,
              m_bondsPosition1, m_bondsPosition2>>

\* Mutant of stopBody: the instance is dropped, the buffers are left alone.
stopBody_noReset == KeepBuffers

\* The body of stop(), shared by stop and by start's restart branch.
stopBody ==
  IF ~hasSimulation THEN KeepBuffers ELSE resetStaticBuffers

\* start(): stop a running instance, then open one; a failed open throws and
\* leaves m_lmp null.
start ==
  \E opened \in BOOLEAN :
    /\ stopBody
    /\ m_lmp' = IF opened THEN FreshSim ELSE NullSim
    /\ ret' = IF opened THEN Void ELSE Thrown
    /\ Record("start", 0)
    /\ UNCHANGED wide

stop ==
  /\ stopBody
  /\ m_lmp' = NullSim
  /\ ret' = Void
  /\ Record("stop", 0)
  /\ UNCHANGED wide

advance ==
  \E steps \in StepChoices :
    /\ IF ~hasSimulation \/ steps <= 0
       THEN m_lmp' = m_lmp
       ELSE /\ ImageWithin(EngineRun(m_lmp, steps), MaxImage)
            /\ m_lmp' = EngineRun(m_lmp, steps)
    /\ KeepBuffers
    /\ ret' = Void
    /\ Record("advance", steps)
    /\ UNCHANGED wide

\* lammps_commands_string / lammps_file: the script sets the engine up anew.
runScriptBody(empty) ==
  IF ~hasSimulation \/ empty
  THEN m_lmp' = m_lmp
  ELSE \E scene \in Scenes : m_lmp' = scene

runCommand ==
  \E empty \in BOOLEAN :
    /\ IF empty THEN m_lmp' = m_lmp ELSE runScriptBody(FALSE)
    /\ KeepBuffers
    /\ ret' = Void
    /\ Record("runCommand", 0)
    /\ UNCHANGED wide

runScript ==
  \E empty \in BOOLEAN :
    /\ runScriptBody(empty)
    /\ KeepBuffers
    /\ ret' = Void
    /\ Record("runScript", 0)
    /\ UNCHANGED wide

runFile ==
  \E empty \in BOOLEAN :
    /\ runScriptBody(empty)
    /\ KeepBuffers
    /\ ret' = Void
    /\ Record("runFile", 0)
    /\ UNCHANGED wide

\* --------------------------------------------------------------- captures
\* Mutant of particlesCall: the particle capture also clears the bond
\* buffers.
particlesCall_clearsBonds(name, twin, wrapped) ==
  LET r == captureParticles(m_lmp, m_particlePositions, wrapped)
  IN /\ m_particlePositions' = r.buffer
     /\ m_bondsPosition1' = <<>>
     /\ m_bondsPosition2' = <<>>
     /\ ret' = r.snapshot
     /\ Record(name, After(name, twin))
     /\ UNCHANGED <<m_lmp, m_cellMatrix, m_boxSize, m_origo, wide>>

particlesCall(name, twin, wrapped) ==
  LET r == captureParticles(m_lmp, m_particlePositions, wrapped)
  IN /\ m_particlePositions' = r.buffer
     /\ ret' = r.snapshot
     /\ Record(name, After(name, twin))
     /\ UNCHANGED <<m_lmp, m_cellMatrix, m_boxSize, m_origo,
                    m_bondsPosition1, m_bondsPosition2, wide>>

syncParticles ==
  particlesCall("syncParticles", "syncParticlesWrapped", FALSE)

syncParticlesWrapped ==
  particlesCall("syncParticlesWrapped", "syncParticles", TRUE)

bondsCall(name, twin, wrapped) ==
  LET r == captureBonds(m_lmp, m_bondsPosition1, m_bondsPosition2, wrapped)
  IN /\ m_bondsPosition1' = r.b1
     /\ m_bondsPosition2' = r.b2
     /\ ret' = r.snapshot
     /\ Record(name, After(name, twin))
     /\ UNCHANGED <<m_lmp, m_cellMatrix, m_boxSize, m_origo,
                    m_particlePositions, wide>>

syncBonds == bondsCall("syncBonds", "syncBondsWrapped", FALSE)

syncBondsWrapped == bondsCall("syncBondsWrapped", "syncBonds", TRUE)

syncSimulationBox ==
  LET r == captureBox(m_lmp, m_cellMatrix, m_boxSize, m_origo)
  IN /\ m_cellMatrix' = r.matrix
     /\ m_boxSize' = r.size
     /\ m_origo' = r.origo
     /\ ret' = r.snapshot
     /\ Record("syncSimulationBox", After("syncSimulationBox", ""))
     /\ UNCHANGED <<m_lmp, m_particlePositions, m_bondsPosition1,
                    m_bondsPosition2, wide>>

Next ==
  \/ start
  \/ stop
  \/ advance
  \/ runCommand
  \/ runScript
  \/ runFile
  \/ syncParticles
  \/ syncParticlesWrapped
  \/ syncBonds
  \/ syncBondsWrapped
  \/ syncSimulationBox

Spec == Init /\ [][Next]_vars

\* ------------------------------------------------- bond topologies
\* Every per-atom bond-partner list up to MaxBondsPerAtom entries over the
\* tags 0..n+1: residents (1..n), the ghost tag n+1 and the unknown tag 0, so
\* one-sided, self-naming, repeated and dangling entries all occur.
RECURSIVE SeqsUpTo(_, _)
SeqsUpTo(S, n) ==
  IF n = 0 THEN {<<>>}
  ELSE LET shorter == SeqsUpTo(S, n - 1)
       IN shorter \cup {Append(q, e) : q \in {r \in shorter : Len(r) = n - 1},
                                       e \in S}

RECURSIVE SumLen(_, _, _)
SumLen(lists, i, n) ==
  IF i >= n THEN 0 ELSE Len(lists[i]) + SumLen(lists, i + 1, n)

TopologyScene(n, lists, force, newton) ==
  [ChainScene(n) EXCEPT
     !.force = force,
     !.newton_bond = newton,
     !.num_bond = [i \in 0..(n - 1) |-> Len(lists[i])],
     !.bond_atom = lists,
     !.nbonds = IF newton THEN SumLen(lists, 0, n)
                ELSE (SumLen(lists, 0, n) + 1) \div 2]

TopologyScenes(maxAtoms) ==
  UNION {
    {TopologyScene(n, lists, force, newton) :
       lists \in [0..(n - 1) -> SeqsUpTo(0..(n + 1), MaxBondsPerAtom)],
       force \in BOOLEAN, newton \in BOOLEAN}
    : n \in 1..maxAtoms}

\* The layer right after start() and a script that built the scene.
InitWith(scenes) ==
  /\ m_lmp \in scenes
  /\ m_cellMatrix = ZeroFill(9)
  /\ m_boxSize = ZeroFill(3)
  /\ m_origo = ZeroFill(3)
  /\ m_particlePositions = <<>>
  /\ m_bondsPosition1 = <<>>
  /\ m_bondsPosition2 = <<>>
  /\ ret = Void
  /\ lastOp = Op("runScript", 0)
  /\ wide = WideIdle

InitTopology == InitWith(TopologyScenes(MaxAtoms))

NextBonds ==
  \/ syncBonds
  \/ syncBondsWrapped

SpecTopology == InitTopology /\ [][NextBonds]_vars

\* ------------------------------------------------- bond geometries
\* Two atoms bonded to each other (each lists the other), at folded
\* positions on either side of the cell, with any image counts on the
\* periodic x and y axes.
ImageChoices(periodic, maxImage) ==
  {img \in [Axes -> -maxImage..maxImage] :
     /\ img[3] = 0
     /\ \A k \in Axes : ~periodic[k] => img[k] = 0}

GeometryScene(x0, x1, img0, img1, periodic, newton) ==
  [ChainScene(2) EXCEPT
     !.newton_bond = newton,
     !.periodicity = periodic,
     !.x = [i \in 0..1 |-> IF i = 0 THEN x0 ELSE x1],
     !.image = [i \in 0..1 |-> IF i = 0 THEN img0 ELSE img1]]

GeometryScenes(maxImage) ==
  UNION {
    {GeometryScene(x0, x1, img0, img1, periodic, newton) :
       x0 \in {<<1, 1, 1>>, <<19, 1, 1>>},
       x1 \in {<<1, 1, 1>>, <<11, 1, 1>>, <<19, 1, 1>>,
               <<1, 7, 1>>, <<11, 7, 1>>, <<19, 7, 1>>},
       img0 \in ImageChoices(periodic, maxImage),
       img1 \in ImageChoices(periodic, maxImage),
       newton \in BOOLEAN}
    : periodic \in {<<px, py, TRUE>> : px \in BOOLEAN, py \in BOOLEAN}}

InitGeometry == InitWith(GeometryScenes(MaxImage))

SpecGeometry == InitGeometry /\ [][NextBonds]_vars

\* ================================================== counts at full width
\* The captures again, at the level of counts and sizes only, so that atom
\* and bond counts of any size can be followed through the 32-bit fields of
\* the snapshots.  A number is <<top, hi, lo>> = top * 2^32 + hi * 2^16 + lo
\* with hi and lo below 2^16: atom->natoms is a 64-bit bigint, a vector's
\* size() a 64-bit size_t, BufferView::length and the snapshot counts are
\* std::uint32_t.
Limb == 256 * 256

WideZero == <<0, 0, 0>>

\* static_cast<std::uint32_t>: the low 32 bits.
CastUInt32(w) == <<0, w[2], w[3]>>

\* w * m for a small factor m, in 64 bits.
TimesSmall(w, m) ==
  LET lo == w[3] * m
      hi == w[2] * m + (lo \div Limb)
      top == w[1] * m + (hi \div Limb)
  IN <<top, hi % Limb, lo % Limb>>

\* w / d (integer division) for a small divisor d.
DivSmall(w, d) ==
  LET hiIn == (w[1] % d) * Limb + w[2]
      loIn == (hiIn % d) * Limb + w[3]
  IN <<w[1] \div d, hiIn \div d, loIn \div d>>

\* w % d for a small divisor d.
ModSmall(w, d) ==
  (((((w[1] % d) * Limb + w[2]) % d) * Limb) + w[3]) % d

DefaultViewWide ==
  [ptr |-> 0, length |-> WideZero, components |-> 1, type |-> "Float32"]

ViewCountWide(view) ==
  IF view.components = 0 THEN WideZero
  ELSE DivSmall(view.length, view.components)

\* makeView over a vector of the given size().
makeViewWide(name, size, components, type) ==
  LET ptr == IF size = WideZero THEN 0 ELSE AddressOf(name)
  IN IF ptr = 0
     THEN [ptr |-> 0, length |-> WideZero, components |-> 0, type |-> type]
     ELSE [ptr |-> ptr, length |-> CastUInt32(size),
           components |-> components, type |-> type]

makeRawViewWide(ptr, count, components, type) ==
  IF ptr = 0 \/ count = WideZero \/ components = 0
  THEN DefaultViewWide
  ELSE [ptr |-> ptr, length |-> CastUInt32(TimesSmall(count, components)),
        components |-> components, type |-> type]

EmptyParticleSnapshotWide ==
  [kind |-> "particles", positions |-> DefaultViewWide,
   ids |-> DefaultViewWide, types |-> DefaultViewWide, count |-> WideZero]

EmptyBondSnapshotWide ==
  [kind |-> "bonds", first |-> DefaultViewWide, second |-> DefaultViewWide,
   count |-> WideZero]

\* captureParticles on a live instance with atom table and domain that
\* reports natoms atoms: the size m_particlePositions is resized to, and the
\* snapshot.
captureParticlesWide(natoms) ==
  LET numAtoms == CastUInt32(natoms) IN
  IF numAtoms = WideZero
  THEN [size |-> WideZero, snapshot |-> EmptyParticleSnapshotWide]
  ELSE
    LET size == TimesSmall(numAtoms, 3)
    IN [size |-> size,
        snapshot |->
          [kind |-> "particles",
           count |-> numAtoms,
           positions |-> makeViewWide("m_particlePositions", size, 3,
                                      "Float32"),
           ids |-> makeRawViewWide(AddressOf("id"), numAtoms, 1,
                                   scalarForTagint),
           types |-> makeRawViewWide(AddressOf("type"), numAtoms, 1,
                                     "Int32")]]

\* captureBonds when the walk appends `appended` entries to each buffer.
captureBondsWide(appended) ==
  LET size == TimesSmall(appended, 3)
  IN [size |-> size,
      snapshot |->
        [kind |-> "bonds",
         count |-> CastUInt32(DivSmall(size, 3)),
         first |-> makeViewWide("m_bondsPosition1", size, 3, "Float32"),
         second |-> makeViewWide("m_bondsPosition2", size, 3, "Float32")]]

\* Atom counts an engine can report: small ones, the last count whose
\* position buffer has fewer than 2^32 floats (1431655765) and the next,
\* 2^31, 2^32 - 1, 2^32 and 2^32 + 2.
WideAtomCounts ==
  {<<0, 0, 0>>, <<0, 0, 1>>, <<0, 0, 2>>, <<0, 0, 3>>,
   <<0, 21845, 21845>>, <<0, 21845, 21846>>, <<0, 32768, 0>>,
   <<0, 65535, 65535>>, <<1, 0, 0>>, <<1, 0, 2>>}

\* Numbers of entries a bond walk can keep (below 2^32).
WideBondCounts == {w \in WideAtomCounts : w[1] = 0}

InitWide ==
  /\ InitWith({FreshSim})
  /\ wide \in {[WideIdle EXCEPT !.natoms = n, !.appended = k] :
                  n \in WideAtomCounts, k \in WideBondCounts}

KeepLayer ==
  UNCHANGED <<m_lmp, m_cellMatrix, m_boxSize, m_origo, m_particlePositions,
              m_bondsPosition1, m_bondsPosition2, ret, lastOp>>

\* The engine runs a script: the counts change, the call returns nothing.
wideRun ==
  /\ \E n \in WideAtomCounts, k \in WideBondCounts :
       wide' = [wide EXCEPT !.natoms = n, !.appended = k, !.ret = Void]
  /\ KeepLayer

wideSyncParticles ==
  /\ LET r == captureParticlesWide(wide.natoms)
     IN wide' = [wide EXCEPT !.particles = r.size, !.ret = r.snapshot]
  /\ KeepLayer

wideSyncBonds ==
  /\ LET r == captureBondsWide(wide.appended)
     IN wide' = [wide EXCEPT !.bonds = r.size, !.ret = r.snapshot]
  /\ KeepLayer

NextWide ==
  \/ wideRun
  \/ wideSyncParticles
  \/ wideSyncBonds

SpecWide == InitWide /\ [][NextWide]_vars

\* ============================================================ properties
ParticleOps == {"syncParticles", "syncParticlesWrapped"}

BondOps == {"syncBonds", "syncBondsWrapped"}

CaptureOps == ParticleOps \cup BondOps \cup {"syncSimulationBox"}

ParticleBuffers == <<m_particlePositions>>

BondBuffers == <<m_bondsPosition1, m_bondsPosition2>>

BoxBuffers == <<m_cellMatrix, m_boxSize, m_origo>>

\* Entry i (from 0) of a buffer of xyz triples.
Triple(buffer, i) ==
  <<buffer[3 * i + 1], buffer[3 * i + 2], buffer[3 * i + 3]>>

Unwrapped(sim, i) == Unmap(sim, sim.x[i], sim.image[i])

Abs(v) == IF v < 0 THEN -v ELSE v

\* The directed bond-list entries <<owner, resolved partner>> in walk order.
RECURSIVE DirectedEntries(_, _)
DirectedEntries(sim, i) ==
  IF i >= sim.natoms THEN <<>>
  ELSE [b \in 1..sim.num_bond[i] |->
          <<i, AtomMap(sim, sim.bond_atom[i][b])>>]
       \o DirectedEntries(sim, i + 1)

SymmetricSharing(sim) == sim.force /\ sim.newton_bond

\* An entry is valid when its partner resolves to a resident atom.
ValidEntry(sim, e) == e[2] >= 0 /\ e[2] < sim.natoms

KeptEntry(sim, e) ==
  ValidEntry(sim, e) /\ (SymmetricSharing(sim) \/ e[1] >= e[2])

EmittedPairs(sim) ==
  SelectSeq(DirectedEntries(sim, 0), LAMBDA e : KeptEntry(sim, e))

\* The unordered bonded pairs, each written <<higher index, lower index>>:
\* some valid entry of either atom names the other.
UnorderedBondedPairs(sim) ==
  LET entries == DirectedEntries(sim, 0)
      listed(i, j) == \E k \in 1..Len(entries) : entries[k] = <<i, j>>
  IN {pr \in (0..(sim.natoms - 1)) \X (0..(sim.natoms - 1)) :
        pr[1] > pr[2] /\ (listed(pr[1], pr[2]) \/ listed(pr[2], pr[1]))}

BondWalkRuns(sim) ==
  sim.live /\ sim.atom /\ sim.domain /\ sim.nbonds # 0 /\ sim.topo

\* C1: with symmetric bond-ownership sharing disabled, for every bond
\* topology, the emitted bond count equals the number of unordered
\* {owner, partner} pairs (owner index > partner index) among the valid
\* bonds: nothing counted twice, no valid resident pair omitted.
C1_BondDedupExact ==
  (lastOp.op \in BondOps /\ BondWalkRuns(m_lmp) /\ ~SymmetricSharing(m_lmp))
    => ret.count = Cardinality(UnorderedBondedPairs(m_lmp))

\* C2: after an unwrapped bond capture, for every emitted pair, first is the
\* owner's unwrapped position and second - first is the displacement
\* partner - owner brought to its minimum image: on a periodic axis it
\* differs from the unwrapped displacement by whole periods and its
\* magnitude is at most half the period; on any other axis it is the
\* unwrapped displacement.
C2_MinimumImageSegment ==
  lastOp.op = "syncBonds" =>
    LET sim == m_lmp
        pairs == EmittedPairs(sim)
    IN /\ Len(m_bondsPosition1) = 3 * Len(pairs)
       /\ Len(m_bondsPosition2) = 3 * Len(pairs)
       /\ \A i \in 1..Len(pairs) :
            LET first == Triple(m_bondsPosition1, i - 1)
                second == Triple(m_bondsPosition2, i - 1)
                o == Unwrapped(sim, pairs[i][1])
                q == Unwrapped(sim, pairs[i][2])
            IN /\ \A k \in Axes : first[k] = o[k]
               /\ \A k \in Axes :
                    IF sim.periodicity[k]
                    THEN /\ 2 * Abs(second[k] - first[k]) <= sim.prd[k]
                         /\ ((second[k] - first[k]) - (q[k] - o[k]))
                              % sim.prd[k] = 0
                    ELSE second[k] - first[k] = q[k] - o[k]

\* C2 witness: an unwrapped capture emitted a bond whose atoms carry
\* different image counts and whose unwrapped displacement along the periodic
\* x axis is longer than a whole period.
C2_Witness ==
  /\ lastOp.op = "syncBonds"
  /\ ret.count > 0
  /\ m_lmp.periodicity[1]
  /\ \E i \in 1..Len(EmittedPairs(m_lmp)) :
       LET e == EmittedPairs(m_lmp)[i]
       IN /\ m_lmp.image[e[1]] # m_lmp.image[e[2]]
          /\ Abs(Unwrapped(m_lmp, e[2])[1] - Unwrapped(m_lmp, e[1])[1])
               > m_lmp.prd[1]
          /\ Abs(Triple(m_bondsPosition2, i - 1)[1]
                 - Triple(m_bondsPosition1, i - 1)[1]) = 2

\* The engine states the claim calls "no active simulation".
NoActiveSimulation(sim) == ~sim.live \/ ~sim.atom \/ ~sim.domain

NullView(view) == ViewEmpty(view) /\ view.ptr = 0 /\ view.length = 0

SnapshotEmpty(r) ==
  CASE r.kind = "particles" ->
         r.count = 0 /\ NullView(r.positions) /\ NullView(r.ids)
         /\ NullView(r.types)
    [] r.kind = "bonds" ->
         r.count = 0 /\ NullView(r.first) /\ NullView(r.second)
    [] r.kind = "box" ->
         NullView(r.matrix) /\ NullView(r.origin) /\ NullView(r.lengths)
    [] OTHER -> FALSE

\* C4 (as claimed): with no active simulation (no instance, or an instance
\* lacking its atom table or its domain) each of syncParticles, syncBonds and
\* syncSimulationBox returns count 0 and only empty views.
C4_EmptyWhenNoActiveSimulation ==
  (lastOp.op \in CaptureOps /\ NoActiveSimulation(m_lmp))
    => SnapshotEmpty(ret)

\* C4 (amended): syncParticles and syncBonds return count 0 and only empty
\* views when there is no instance or the instance lacks its atom table or
\* its domain; syncSimulationBox returns only empty views when there is no
\* instance or the instance lacks its domain (it does not consult the atom
\* table).
C4_EmptyWhenSourceMissing ==
  /\ (lastOp.op \in (ParticleOps \cup BondOps) /\ NoActiveSimulation(m_lmp))
       => SnapshotEmpty(ret)
  /\ (lastOp.op = "syncSimulationBox" /\ (~m_lmp.live \/ ~m_lmp.domain))
       => SnapshotEmpty(ret)

\* C4 witness: the box capture ran on a live instance that has no domain.
C4_Witness ==
  /\ lastOp.op = "syncSimulationBox"
  /\ m_lmp.live
  /\ ~m_lmp.domain
  /\ SnapshotEmpty(ret)

\* C6: a capture run right after the same capture leaves every buffer and
\* the returned snapshot as they were, and what any capture leaves in its
\* buffers and returns is what it would produce from empty buffers: it
\* depends on the engine state at the call alone.
C6_IdempotentNoCaching ==
  /\ [][(lastOp'.op \in CaptureOps /\ lastOp'.arg = 2)
          => UNCHANGED <<ParticleBuffers, BondBuffers, BoxBuffers, ret>>]_vars
  /\ [][lastOp'.op \in ParticleOps
          => LET r == captureParticles(m_lmp', <<>>,
                                       lastOp'.op = "syncParticlesWrapped")
             IN m_particlePositions' = r.buffer /\ ret' = r.snapshot]_vars
  /\ [][lastOp'.op \in BondOps
          => LET r == captureBonds(m_lmp', <<>>, <<>>,
                                   lastOp'.op = "syncBondsWrapped")
             IN /\ m_bondsPosition1' = r.b1
                /\ m_bondsPosition2' = r.b2
                /\ ret' = r.snapshot]_vars
  /\ [][lastOp'.op = "syncSimulationBox"
          => LET r == captureBox(m_lmp', ZeroFill(9), ZeroFill(3), ZeroFill(3))
             IN /\ m_cellMatrix' = r.matrix
                /\ m_boxSize' = r.size
                /\ m_origo' = r.origo
                /\ ret' = r.snapshot]_vars

\* C6 witness: syncBonds ran twice in a row and emitted bonds.
C6_Witness ==
  /\ lastOp.op = "syncBonds"
  /\ lastOp.arg = 2
  /\ ret.count > 0

\* C7: when a particle capture in one wrapping mode follows the capture in
\* the other mode, every atom whose image counts are all zero has the same
\* values in its slot after both.
C7_ZeroImageSameInBothModes ==
  [][(lastOp'.op \in ParticleOps /\ lastOp'.arg = 3)
       => \A i \in 0..(m_lmp.natoms - 1) :
            m_lmp.image[i] = ZeroImage
              => /\ 3 * i + 3 <= Len(m_particlePositions)
                 /\ 3 * i + 3 <= Len(m_particlePositions')
                 /\ Triple(m_particlePositions', i)
                      = Triple(m_particlePositions, i)]_vars

\* C7 witness: an unwrapped capture followed a wrapped one while atom 0 had
\* crossed the boundary and atom 1 had not.
C7_Witness ==
  /\ lastOp.op = "syncParticles"
  /\ lastOp.arg = 3
  /\ m_lmp.natoms >= 2
  /\ m_lmp.image[0] # ZeroImage
  /\ m_lmp.image[1] = ZeroImage
  /\ ret.count = m_lmp.natoms

\* C9: a particle capture leaves the bond and box buffers unchanged, a bond
\* capture the particle and box buffers, the box capture the particle and
\* bond buffers.
C9_CaptureFrame ==
  [][/\ lastOp'.op \in ParticleOps => UNCHANGED <<BondBuffers, BoxBuffers>>
     /\ lastOp'.op \in BondOps => UNCHANGED <<ParticleBuffers, BoxBuffers>>
     /\ lastOp'.op = "syncSimulationBox"
          => UNCHANGED <<ParticleBuffers, BondBuffers>>]_vars

\* C9 witness: a particle capture returned atoms while the bond and box
\* buffers held data.
C9_Witness ==
  /\ lastOp.op \in ParticleOps
  /\ ret.count > 0
  /\ Len(m_bondsPosition1) > 0
  /\ Len(m_bondsPosition2) > 0
  /\ m_boxSize # ZeroFill(3)

BuffersClean ==
  /\ m_particlePositions = <<>>
  /\ m_bondsPosition1 = <<>>
  /\ m_bondsPosition2 = <<>>
  /\ m_cellMatrix = ZeroFill(9)
  /\ m_boxSize = ZeroFill(3)
  /\ m_origo = ZeroFill(3)

\* C10: whenever the layer holds no simulation the particle and bond buffers
\* are empty and the box buffers are all zero; stop without a simulation, and
\* advance with steps <= 0 or without a simulation, change nothing.
C10_NoSimulationClean ==
  /\ [](~hasSimulation => BuffersClean)
  /\ [][(\/ lastOp'.op = "stop" /\ ~hasSimulation
         \/ lastOp'.op = "advance" /\ (lastOp'.arg <= 0 \/ ~hasSimulation))
          => UNCHANGED <<m_lmp, ParticleBuffers, BondBuffers,
                         BoxBuffers>>]_vars

\* C10 witness: a start failed and raised, leaving no simulation.
C10_Witness ==
  /\ ~hasSimulation
  /\ lastOp.op = "start"
  /\ ret = Thrown

\* The views of a count-level snapshot.
ViewsOfWide(r) ==
  IF r.kind = "particles" THEN {r.positions, r.ids, r.types}
  ELSE IF r.kind = "bonds" THEN {r.first, r.second}
  ELSE {}

\* C3: in a captured ParticleSnapshot, count is the atom count the engine
\* reports, for every count it can report, and when the position, id and
\* type sources are present positions.count(), ids.count() and
\* types.count() all equal it.
C3_ParticleCountsAgree ==
  wide.ret.kind = "particles" =>
    /\ wide.ret.count = wide.natoms
    /\ wide.natoms # WideZero =>
         /\ ViewCountWide(wide.ret.positions) = wide.ret.count
         /\ ViewCountWide(wide.ret.ids) = wide.ret.count
         /\ ViewCountWide(wide.ret.types) = wide.ret.count

\* C5: every returned BufferView has a length that is a multiple of its
\* components, and a view with a null handle, or with components 0, has
\* length 0.
C5_ViewLengthMultipleOfComponents ==
  \A view \in ViewsOfWide(wide.ret) :
    /\ view.ptr = 0 => view.length = WideZero
    /\ view.components = 0 => view.length = WideZero
    /\ view.components # 0 => ModSmall(view.length, view.components) = 0

\* C8: in a captured BondSnapshot, count is the number of entries the walk
\* appended, and first.count() and second.count() both equal it.
C8_BondCountsAgree ==
  wide.ret.kind = "bonds" =>
    /\ wide.ret.count = wide.appended
    /\ ViewCountWide(wide.ret.first) = wide.ret.count
    /\ ViewCountWide(wide.ret.second) = wide.ret.count

====
